---- MODULE Spec2Model ----
(***************************************************************************)
(* Model of src/app.py: the "Generate Video Now" handler of the slide /    *)
(* audio synchroniser.  One run of the handler is modelled: the temporary  *)
(* directory, title extraction, rasterisation, audio copy, transcription,  *)
(* the cue scan, the title backfill, the missing-slide report, the sort,   *)
(* the interval loop, the render branch, the except and finally clauses.   *)
(*                                                                         *)
(* Text is a sequence of tokens: one-character strings, plus one token per *)
(* slide-reference suffix word of the regular expression on line 124.      *)
(* Time is in whole seconds (the trailing pad of line 159 is 1 second).    *)
(***************************************************************************)
EXTENDS Integers, Sequences, FiniteSets, TLC

\* ---------------------------------------------------------------- bounds
MaxPages == 3
MaxSegs == 2

\* The latest second a transcript segment's start or the audio's end may
\* fall on: the seconds 0..MaxTime leave room for MaxSegs successive starts.
MaxTime == MaxSegs - 1

\* ------------------------------------------------------ program constants
\* end_time of the last marker: audio_clip.duration + 1.0
Pad == 1

\* len(title) > 3
MinTitleOver == 3

\* ------------------------------------------------------------------ text
Digits == {"0", "1", "2", "3", "4", "5", "6", "7", "8", "9"}

DigitVal(c) ==
    CASE c = "0" -> 0 [] c = "1" -> 1 [] c = "2" -> 2 [] c = "3" -> 3
      [] c = "4" -> 4 [] c = "5" -> 5 [] c = "6" -> 6 [] c = "7" -> 7
      [] c = "8" -> 8 [] c = "9" -> 9

\* The alternatives of (枚目|ページ|スライド), one token each.
Suffixes == {"maime", "peeji", "suraido"}

Whitespace == {" "}

\* Titles a page's first line may be: one of 4 characters, one of 3.
Titles == { <<"a", "b", "c", "d">>, <<"a", "b", "c">> }

\* Texts a transcript segment may carry.
Texts ==
    { <<"x", "0", "maime">>,
      <<"2", " ", "peeji", "a", "b", "c", "d", "3", "maime">>,
      <<"a", "b", "c", "d", "0", "1", "suraido">> }

\* title in segment['text']
Contains(title, text) ==
    \E k \in 0..(Len(text) - Len(title)) :
        SubSeq(text, k + 1, k + Len(title)) = title

\* \d+ is greedy: the last index of the run of digits that starts at i.
RECURSIVE DigitsEnd(_, _)
DigitsEnd(text, i) ==
    IF i + 1 <= Len(text) /\ text[i + 1] \in Digits
    THEN DigitsEnd(text, i + 1)
    ELSE i

\* \s*: the first index at or after k that holds no whitespace.
RECURSIVE SkipSpace(_, _)
SkipSpace(text, k) ==
    IF k <= Len(text) /\ text[k] \in Whitespace
    THEN SkipSpace(text, k + 1)
    ELSE k

\* (\d+)\s*(枚目|ページ|スライド) matches with its first digit at i.
MatchAt(text, i) ==
    /\ text[i] \in Digits
    /\ LET k == SkipSpace(text, DigitsEnd(text, i) + 1)
       IN  k <= Len(text) /\ text[k] \in Suffixes

\* int(match.group(1)) for the digits text[i..j]
RECURSIVE ToInt(_, _, _)
ToInt(text, i, j) ==
    IF j < i THEN 0 ELSE 10 * ToInt(text, i, j - 1) + DigitVal(text[j])

NoMatch == -1

\* re.search: the leftmost match, scanning from index i; NoMatch if none.
RECURSIVE Search(_, _)
Search(text, i) ==
    IF i > Len(text) THEN NoMatch
    ELSE IF MatchAt(text, i) THEN ToInt(text, i, DigitsEnd(text, i))
    ELSE Search(text, i + 1)

\* ---------------------------------------------------------------- inputs
Times == 0..MaxTime

\* extract_slide_titles' result: page number -> first non-blank line.
TitleMaps == UNION { [S -> Titles] : S \in SUBSET (1..MaxPages) }

\* What extract_slide_titles has collected when an exception stops it:
\* nothing (fitz.open raised) or the first page's title (a later page raised).
PartialTitleMaps == UNION { [S -> Titles] : S \in SUBSET {1} }

Segment == [text : Texts, start : Times]

\* result['segments']: in transcript order; a segment starts after the one
\* before it.
Transcripts ==
    { s \in UNION { [1..n -> Segment] : n \in 0..MaxSegs } :
        \A k \in 1..(Len(s) - 1) : s[k].start < s[k + 1].start }

\* ----------------------------------------------------------------- state
VARIABLES
    pc,              \* position in the handler
    tmpdir,          \* TRUE while tmpdir_obj holds its directory
    slide_titles,    \* extract_slide_titles' return value
    analysis_error,  \* TRUE once extract_slide_titles has caught an exception
    total_slides,    \* len(images) = len(image_paths)
    segments,        \* result['segments']
    markers,         \* the marker list
    found_slides,    \* the set of slide numbers already resolved
    cue_count,       \* len(markers) when the cue scan ended
    merged,          \* the marker list as it was before line 151 sorted it
    missing_slides,  \* the missing-slide report
    duration,        \* audio_clip.duration
    clips,           \* the clips handed to concatenate_videoclips
    outcome          \* what the run told the user

vars == << pc, tmpdir, slide_titles, analysis_error, total_slides, segments,
           markers, found_slides, cue_count, merged, missing_slides, duration,
           clips, outcome >>

Init ==
    /\ pc = "idle"
    /\ tmpdir = FALSE
    /\ slide_titles = << >>
    /\ analysis_error = FALSE
    /\ total_slides = 0
    /\ segments = << >>
    /\ markers = << >>
    /\ found_slides = {}
    /\ cue_count = 0
    /\ merged = << >>
    /\ missing_slides = << >>
    /\ duration = 0
    /\ clips = << >>
    /\ outcome = "none"

\* ------------------------------------------------------- marker collection
Marker(slide, start) == [slide |-> slide, start |-> start]

\* markers = [{"slide": 1, "start": 0.0}]
Anchor == Marker(1, 0)

CueAcceptedNoDedup(num, found, n) == num <= n

\* if num not in found_slides and num <= total_slides
CueAccepted(num, found, n) == num \notin found /\ num <= n

\* The loop of lines 122-129 from segment k on; yields <<markers, found>>.
RECURSIVE CueScanFrom(_, _, _, _, _)
CueScanFrom(segs, k, n, mk, found) ==
    IF k > Len(segs) THEN << mk, found >>
    ELSE LET num == Search(segs[k].text, 1)
         IN  IF num # NoMatch /\ CueAccepted(num, found, n)
             THEN CueScanFrom(segs, k + 1, n,
                              Append(mk, Marker(num, segs[k].start)),
                              found \cup {num})
             ELSE CueScanFrom(segs, k + 1, n, mk, found)

BackfillEligibleShort(page_num, title, found) ==
    page_num \notin found /\ Len(title) > MinTitleOver - 1

\* if page_num not in found_slides and len(title) > 3
BackfillEligible(page_num, title, found) ==
    page_num \notin found /\ Len(title) > MinTitleOver

\* The inner loop of lines 134-138 from segment k on: the index of the first
\* segment that contains the title, 0 if none does.
RECURSIVE FirstHit(_, _, _)
FirstHit(title, segs, k) ==
    IF k > Len(segs) THEN 0
    ELSE IF Contains(title, segs[k].text) THEN k
    ELSE FirstHit(title, segs, k + 1)

\* The loop of lines 132-138 from page p on (slide_titles.items() yields the
\* pages in the order extract_slide_titles inserted them: ascending).
RECURSIVE BackfillFrom(_, _, _, _, _)
BackfillFrom(p, titles, segs, mk, found) ==
    IF p > MaxPages THEN << mk, found >>
    ELSE IF p \in DOMAIN titles /\ BackfillEligible(p, titles[p], found)
              /\ FirstHit(titles[p], segs, 1) # 0
         THEN BackfillFrom(p + 1, titles, segs,
                  Append(mk, Marker(p, segs[FirstHit(titles[p], segs, 1)].start)),
                  found \cup {p})
         ELSE BackfillFrom(p + 1, titles, segs, mk, found)

MissingListShort(n, found) ==
    SelectSeq([i \in 1..(n - 1) |-> i], LAMBDA i : i \notin found)

\* [i for i in range(1, total_slides + 1) if i not in found_slides]
MissingList(n, found) ==
    SelectSeq([i \in 1..n |-> i], LAMBDA i : i \notin found)

\* ------------------------------------------------------------------- sort
InsertByStartUnstable(s, m) ==
    SelectSeq(s, LAMBDA x : x.start < m.start)
      \o << m >>
      \o SelectSeq(s, LAMBDA x : x.start >= m.start)

\* One step of a stable sort: m goes after every element whose start is not
\* greater than its own.
InsertByStart(s, m) ==
    SelectSeq(s, LAMBDA x : x.start <= m.start)
      \o << m >>
      \o SelectSeq(s, LAMBDA x : x.start > m.start)

\* sorted(markers, key=lambda x: x["start"]) over the first n markers.
RECURSIVE SortedByStart(_, _)
SortedByStart(ms, n) ==
    IF n = 0 THEN << >> ELSE InsertByStart(SortedByStart(ms, n - 1), ms[n])

\* ---------------------------------------------------------- interval loop
EndTimeNoPad(ms, i, d) == IF i + 1 <= Len(ms) THEN ms[i + 1].start ELSE d

\* markers[i+1]["start"] if i+1 < len(markers) else audio_clip.duration + 1.0
EndTime(ms, i, d) == IF i + 1 <= Len(ms) THEN ms[i + 1].start ELSE d + Pad

ClipDuration(ms, i, d) == EndTime(ms, i, d) - ms[i].start

\* if idx < len(image_paths): ... if duration > 0:
Emits(ms, i, n, d) == ms[i].slide - 1 < n /\ ClipDuration(ms, i, d) > 0

\* image_paths[idx] raises IndexError
IndexError(idx, n) == idx >= n \/ idx < 0 - n

\* image_paths[idx]: which image (0-based) the subscript yields; a negative
\* subscript counts from the end of the list.
Subscript(idx, n) == IF idx < 0 THEN idx + n ELSE idx

\* The loop of lines 155-163 reaches a subscript that raises.
LoopRaises(ms, n, d) ==
    \E i \in 1..Len(ms) : Emits(ms, i, n, d) /\ IndexError(ms[i].slide - 1, n)

\* The clips of lines 155-163 from position i on.  Each clip records the
\* position i of its marker, the subscript idx, the image and the duration.
RECURSIVE ClipsFrom(_, _, _, _)
ClipsFrom(ms, i, n, d) ==
    IF i > Len(ms) THEN << >>
    ELSE (IF Emits(ms, i, n, d)
          THEN << [pos |-> i,
                   idx |-> ms[i].slide - 1,
                   image |-> Subscript(ms[i].slide - 1, n),
                   duration |-> ClipDuration(ms, i, d)] >>
          ELSE << >>)
         \o ClipsFrom(ms, i + 1, n, d)

\* ---------------------------------------------------------------- actions
\* Lines 80-82: the button is pressed, the temporary directory is created.
Click ==
    /\ pc = "idle"
    /\ pc' = "pdf"
    /\ tmpdir' = TRUE
    /\ UNCHANGED << slide_titles, analysis_error, total_slides, segments,
                    markers, found_slides, cue_count, merged, missing_slides,
                    duration, clips, outcome >>

\* Lines 91-95 and 12-26: the PDF is written and its titles are extracted.
ExtractTitles ==
    /\ pc = "pdf"
    /\ \E t \in TitleMaps : slide_titles' = t
    /\ pc' = "raster"
    /\ UNCHANGED << tmpdir, analysis_error, total_slides, segments, markers,
                    found_slides, cue_count, merged, missing_slides, duration,
                    clips, outcome >>

\* Lines 14-26 when fitz raises: the exception is caught, reported with
\* st.error, and the titles collected so far are returned.
ExtractTitlesError ==
    /\ pc = "pdf"
    /\ \E t \in PartialTitleMaps : slide_titles' = t
    /\ analysis_error' = TRUE
    /\ pc' = "raster"
    /\ UNCHANGED << tmpdir, total_slides, segments, markers, found_slides,
                    cue_count, merged, missing_slides, duration, clips,
                    outcome >>

\* Lines 96-103: the pages are rendered and saved.
Rasterize ==
    /\ pc = "raster"
    /\ \E n \in 0..MaxPages : total_slides' = n
    /\ pc' = "audio"
    /\ UNCHANGED << tmpdir, slide_titles, analysis_error, segments, markers,
                    found_slides, cue_count, merged, missing_slides, duration,
                    clips, outcome >>

\* Lines 106-111: the audio is copied.
CopyAudio ==
    /\ pc = "audio"
    /\ pc' = "transcribe"
    /\ UNCHANGED << tmpdir, slide_titles, analysis_error, total_slides,
                    segments, markers, found_slides, cue_count, merged,
                    missing_slides, duration, clips, outcome >>

\* Lines 114-116: Whisper transcribes the audio.
Transcribe ==
    /\ pc = "transcribe"
    /\ \E s \in Transcripts : segments' = s
    /\ pc' = "cue"
    /\ UNCHANGED << tmpdir, slide_titles, analysis_error, total_slides,
                    markers, found_slides, cue_count, merged, missing_slides,
                    duration, clips, outcome >>

\* Lines 118-129: the synthetic anchor and the cue scan.
CueScan ==
    /\ pc = "cue"
    /\ LET r == CueScanFrom(segments, 1, total_slides, << Anchor >>, {1})
       IN  /\ markers' = r[1]
           /\ found_slides' = r[2]
           /\ cue_count' = Len(r[1])
    /\ pc' = "backfill"
    /\ UNCHANGED << tmpdir, slide_titles, analysis_error, total_slides,
                    segments, merged, missing_slides, duration, clips,
                    outcome >>

\* Lines 132-138: the title backfill.
TitleBackfill ==
    /\ pc = "backfill"
    /\ LET r == BackfillFrom(1, slide_titles, segments, markers, found_slides)
       IN  /\ markers' = r[1]
           /\ found_slides' = r[2]
    /\ pc' = "report"
    /\ UNCHANGED << tmpdir, slide_titles, analysis_error, total_slides,
                    segments, cue_count, merged, missing_slides, duration,
                    clips, outcome >>

\* Lines 141-147: the missing-slide report (a warning or a success message).
MissingReport ==
    /\ pc = "report"
    /\ missing_slides' = MissingList(total_slides, found_slides)
    /\ pc' = "sort"
    /\ UNCHANGED << tmpdir, slide_titles, analysis_error, total_slides,
                    segments, markers, found_slides, cue_count, merged,
                    duration, clips, outcome >>

\* Line 151: the markers are sorted by start time.
SortMarkers ==
    /\ pc = "sort"
    /\ merged' = markers
    /\ markers' = SortedByStart(markers, Len(markers))
    /\ pc' = "build"
    /\ UNCHANGED << tmpdir, slide_titles, analysis_error, total_slides,
                    segments, found_slides, cue_count, missing_slides,
                    duration, clips, outcome >>

\* Lines 152-163: the audio is opened and the interval loop runs through.
BuildIntervals ==
    /\ pc = "build"
    /\ \E d \in Times :
          /\ ~LoopRaises(markers, total_slides, d)
          /\ duration' = d
          /\ clips' = ClipsFrom(markers, 1, total_slides, d)
    /\ pc' = "render"
    /\ UNCHANGED << tmpdir, slide_titles, analysis_error, total_slides,
                    segments, markers, found_slides, cue_count, merged,
                    missing_slides, outcome >>

\* Lines 152-163 and 187-188: the interval loop subscripts image_paths out
\* of range; the IndexError is caught by the except clause.
BuildIntervalsIndexError ==
    /\ pc = "build"
    /\ \E d \in Times :
          /\ LoopRaises(markers, total_slides, d)
          /\ duration' = d
    /\ outcome' = "system_error"
    /\ pc' = "finally"
    /\ UNCHANGED << tmpdir, slide_titles, analysis_error, total_slides,
                    segments, markers, found_slides, cue_count, merged,
                    missing_slides, clips >>

\* Lines 165-183: there are clips; the video is written and offered.
RenderVideo ==
    /\ pc = "render"
    /\ clips # << >>
    /\ outcome' = "video"
    /\ pc' = "finally"
    /\ UNCHANGED << tmpdir, slide_titles, analysis_error, total_slides,
                    segments, markers, found_slides, cue_count, merged,
                    missing_slides, duration, clips >>

\* Lines 184-185: there are no clips; "Sync Failure" is reported.
SyncFailure ==
    /\ pc = "render"
    /\ clips = << >>
    /\ outcome' = "sync_failure"
    /\ pc' = "finally"
    /\ UNCHANGED << tmpdir, slide_titles, analysis_error, total_slides,
                    segments, markers, found_slides, cue_count, merged,
                    missing_slides, duration, clips >>

\* The stages whose library calls may raise: writing and rendering the PDF,
\* copying the audio, Whisper, opening the audio, encoding the video.
Raising == {"pdf", "raster", "audio", "transcribe", "build", "render"}

\* Lines 187-188: an exception raised inside the try block is caught and
\* reported as "System Error".
SystemError ==
    /\ pc \in Raising
    /\ pc = "render" => clips # << >>
    /\ outcome' = "system_error"
    /\ pc' = "finally"
    /\ UNCHANGED << tmpdir, slide_titles, analysis_error, total_slides,
                    segments, markers, found_slides, cue_count, merged,
                    missing_slides, duration, clips >>

FinallyOnSuccessOnly ==
    /\ pc = "finally"
    /\ tmpdir' = (outcome = "system_error")
    /\ pc' = "done"
    /\ UNCHANGED << slide_titles, analysis_error, total_slides, segments,
                    markers, found_slides, cue_count, merged, missing_slides,
                    duration, clips, outcome >>

\* Lines 189-190: tmpdir_obj.cleanup()
Finally ==
    /\ pc = "finally"
    /\ tmpdir' = FALSE
    /\ pc' = "done"
    /\ UNCHANGED << slide_titles, analysis_error, total_slides, segments,
                    markers, found_slides, cue_count, merged, missing_slides,
                    duration, clips, outcome >>

Next ==
    \/ Click
    \/ ExtractTitles
    \/ ExtractTitlesError
    \/ Rasterize
    \/ CopyAudio
    \/ Transcribe
    \/ CueScan
    \/ TitleBackfill
    \/ MissingReport
    \/ SortMarkers
    \/ BuildIntervals
    \/ BuildIntervalsIndexError
    \/ RenderVideo
    \/ SyncFailure
    \/ SystemError
    \/ Finally

Spec == Init /\ [][Next]_vars

\* The handler is one thread of straight-line code: it keeps running until
\* it has left the finally clause.
LiveSpec == Spec /\ WF_vars(Next)

\* ------------------------------------------------------------ run progress
\* Line 151 has run: the marker list is final.
AfterSort == merged # << >>

\* Lines 132-138 have run.
AfterBackfill == pc \in {"report", "sort"} \/ AfterSort

\* Lines 141-145 have run.
AfterReport == pc = "sort" \/ AfterSort

\* The interval loop has run through: clips is what line 165 tests.
Built == pc = "render" \/ outcome \in {"video", "sync_failure"}

\* The marker list in merge order, once the backfill has run.
MergeList == IF AfterSort THEN merged ELSE markers

\* ------------------------------------------------------------------ claims

\* C1: for N >= 1, every Marker of the final sequence has a slideNumber in
\* 1..N, so the sequence has at most N entries, and every emitted interval's
\* image index slideNumber-1 lies in 0..N-1.
C1_SlidesInRange ==
    (AfterSort /\ total_slides >= 1) =>
        /\ \A i \in 1..Len(markers) : markers[i].slide \in 1..total_slides
        /\ Len(markers) <= total_slides
        /\ \A k \in 1..Len(clips) : clips[k].idx \in 0..(total_slides - 1)

\* The position in merge order of a marker of the final sequence.
MergeIndex(m) == CHOOSE k \in 1..Len(merged) : merged[k] = m

\* The first segment whose numeric cue names the slide.
FirstCueSegment(slide) ==
    CHOOSE s \in 1..Len(segments) :
        /\ Search(segments[s].text, 1) = slide
        /\ \A r \in 1..(s - 1) : Search(segments[r].text, 1) # slide

\* C2: in the final sequence no two Markers have the same slideNumber; the
\* sequence holds the merged Markers ordered non-decreasing by startTime,
\* Markers of equal startTime in merge order; merge order is the synthetic
\* anchor, then the cue candidates in detection order, then the backfill
\* candidates in detection order.
C2_DistinctSortedStable ==
    AfterSort =>
        /\ \A i, j \in 1..Len(markers) :
              i # j => markers[i].slide # markers[j].slide
        /\ Len(markers) = Len(merged)
        /\ \A i \in 1..Len(markers) : \E k \in 1..Len(merged) : merged[k] = markers[i]
        /\ \A i, j \in 1..Len(markers) :
              i < j =>
                 /\ markers[i].start <= markers[j].start
                 /\ markers[i].start = markers[j].start
                       => MergeIndex(markers[i]) < MergeIndex(markers[j])
        /\ merged[1] = Anchor
        /\ cue_count \in 1..Len(merged)
        /\ \A k \in 2..cue_count :
              /\ \E s \in 1..Len(segments) :
                    Search(segments[s].text, 1) = merged[k].slide
              /\ merged[k].start = segments[FirstCueSegment(merged[k].slide)].start
              /\ \A h \in 2..(k - 1) :
                    FirstCueSegment(merged[h].slide) < FirstCueSegment(merged[k].slide)
        /\ \A k \in (cue_count + 1)..Len(merged) :
              /\ merged[k].slide \in DOMAIN slide_titles
              /\ \A h \in (cue_count + 1)..(k - 1) : merged[h].slide < merged[k].slide

\* The sort moved a backfill Marker in front of a cue Marker, and two Markers
\* share a startTime.
C2_Witness ==
    /\ AfterSort
    /\ merged # markers
    /\ Len(markers) >= 3
    /\ \E i \in 1..(Len(markers) - 1) : markers[i].start = markers[i + 1].start

\* C3: the marker sequence holds exactly one Marker for slide 1, at
\* startTime 0: neither a numeric cue for slide 1 nor a title match for
\* slide 1 adds to or replaces the synthetic anchor.
C3_AnchorKept ==
    (pc \in {"backfill", "report", "sort"} \/ AfterSort) =>
        /\ Cardinality({ i \in 1..Len(markers) : markers[i].slide = 1 }) = 1
        /\ \A i \in 1..Len(markers) : markers[i].slide = 1 => markers[i].start = 0

\* The transcript names slide 1 by number and by title, after second 0.
C3_Witness ==
    /\ AfterSort
    /\ 1 \in DOMAIN slide_titles
    /\ Len(slide_titles[1]) > MinTitleOver
    /\ \E s \in 1..Len(segments) :
          /\ segments[s].start > 0
          /\ Search(segments[s].text, 1) = 1
          /\ Contains(slide_titles[1], segments[s].text)

\* The marker start of the interval clips[k] was cut from.
ClipStart(k) == markers[clips[k].pos].start

\* Where clips[k] starts on screen: the clips before it, end to end.
RECURSIVE OnScreen(_)
OnScreen(k) == IF k = 1 THEN 0 ELSE OnScreen(k - 1) + clips[k - 1].duration

\* C4: consecutive emitted intervals are contiguous in marker time (start
\* plus duration is the next emitted interval's marker start, the markers
\* skipped between them being dropped for non-positive duration), so every
\* emitted slide is on screen exactly at its marker's startTime.
C4_Contiguous ==
    Built =>
        /\ \A k \in 1..(Len(clips) - 1) :
              /\ ClipStart(k) + clips[k].duration = ClipStart(k + 1)
              /\ \A i \in (clips[k].pos + 1)..(clips[k + 1].pos - 1) :
                    ClipDuration(markers, i, duration) <= 0
        /\ \A k \in 1..Len(clips) : OnScreen(k) = ClipStart(k)

\* C5: position i of the sorted markers yields exactly the interval
\* (slideNumber-1, startTime, end-startTime), end being the next marker's
\* startTime or D+1 for the last, and yields nothing when that duration is
\* not positive or the image index is outside 0..N-1.
C5_IntervalsAsSpecified ==
    Built =>
        /\ \A i \in 1..Len(markers) :
              LET idx == markers[i].slide - 1
                  end == IF i < Len(markers) THEN markers[i + 1].start
                                             ELSE duration + 1
                  mine == { k \in 1..Len(clips) : clips[k].pos = i }
              IN  IF end - markers[i].start > 0 /\ idx \in 0..(total_slides - 1)
                  THEN /\ Cardinality(mine) = 1
                       /\ \A k \in mine :
                             /\ clips[k].idx = idx
                             /\ clips[k].image = idx
                             /\ clips[k].duration = end - markers[i].start
                  ELSE mine = {}
        /\ \A k \in 1..(Len(clips) - 1) : clips[k].pos < clips[k + 1].pos

\* C6: the missing-slide report is exactly the set of the i in 1..N that no
\* Marker of the marker sequence names; every run that reaches the report
\* computes it and goes on to the sort whatever the report holds.
C6_MissingReport ==
    /\ [](AfterReport =>
            { missing_slides[k] : k \in 1..Len(missing_slides) }
               = { i \in 1..total_slides : \A k \in 1..Len(markers) : markers[k].slide # i })
    /\ [][pc = "report" => pc' = "sort"]_vars

\* A run with a non-empty report produced its video.
C6_Witness == outcome = "video" /\ missing_slides # << >>

\* C7: when the PDF cannot be parsed during title extraction, the run aborts
\* there: it does not go on through rasterization into transcription or
\* reconciliation.
C7_ParseFailureAborts ==
    analysis_error =>
        /\ pc \notin {"audio", "transcribe", "cue", "backfill", "report",
                      "sort", "build", "render"}
        /\ outcome \notin {"video", "sync_failure"}

\* C8: a run that has created its temporary directory eventually releases
\* it, and no run ends with the directory still allocated.
C8_TmpdirReleased ==
    /\ tmpdir ~> ~tmpdir
    /\ [](pc = "done" => ~tmpdir)

\* A run that was ended by an exception after transcription has ended with
\* its directory released.
C8_Witness ==
    /\ pc = "done"
    /\ ~tmpdir
    /\ outcome = "system_error"
    /\ segments # << >>

\* The slides the anchor and the cue scan resolved.
ResolvedByCue == { MergeList[k].slide : k \in 1..cue_count }

\* C9: a backfill Marker for slide p exists only if p has a title of at
\* least 4 characters and the anchor and the cue scan had not resolved p; its
\* startTime is that of the first segment, in transcript order, that contains
\* the title; backfill Markers are added in slide order.
C9_Backfill ==
    AfterBackfill =>
        \A k \in (cue_count + 1)..Len(MergeList) :
            LET p == MergeList[k].slide
            IN  /\ p \in DOMAIN slide_titles
                /\ Len(slide_titles[p]) >= 4
                /\ p \notin ResolvedByCue
                /\ \E s \in 1..Len(segments) :
                      /\ Contains(slide_titles[p], segments[s].text)
                      /\ \A r \in 1..(s - 1) :
                            ~Contains(slide_titles[p], segments[r].text)
                      /\ MergeList[k].start = segments[s].start
                /\ \A h \in (cue_count + 1)..(k - 1) : MergeList[h].slide < p

\* A backfill Marker was taken from the second segment, the first not
\* containing the title, while a slide with a 3-character title that a
\* segment contains stayed unresolved.
C9_Witness ==
    /\ AfterBackfill
    /\ \E k \in (cue_count + 1)..Len(MergeList) :
          /\ Len(segments) >= 2
          /\ MergeList[k].start = segments[2].start
          /\ ~Contains(slide_titles[MergeList[k].slide], segments[1].text)
    /\ \E p \in DOMAIN slide_titles :
          /\ Len(slide_titles[p]) = 3
          /\ p \notin found_slides
          /\ \E s \in 1..Len(segments) : Contains(slide_titles[p], segments[s].text)

\* At least one page image, no title beyond the images, no segment starting
\* after the audio's end.
C10_Premise ==
    /\ total_slides >= 1
    /\ \A p \in DOMAIN slide_titles : p <= total_slides
    /\ \A s \in 1..Len(segments) : segments[s].start <= duration
    /\ duration >= 0

\* C10: under the premise the emitted interval sequence is not empty and the
\* run does not end in the sync failure; a sync failure happens only when
\* N = 0, when the last marker points past the image list, or when the last
\* marker's startTime is at least D + 1.
C10_SyncFailureOnly ==
    Built =>
        /\ C10_Premise => (clips # << >> /\ outcome # "sync_failure")
        /\ outcome = "sync_failure" =>
              \/ total_slides = 0
              \/ markers[Len(markers)].slide - 1 >= total_slides
              \/ markers[Len(markers)].start >= duration + 1

\* A video was produced under the premise although the last marker starts
\* at the very end of the audio.
C10_Witness ==
    /\ outcome = "video"
    /\ C10_Premise
    /\ Len(markers) >= 2
    /\ markers[Len(markers)].start = duration

====
